---------------------------- MODULE Spec2Model ----------------------------
(***************************************************************************)
(* PyReduce: the Python wrappers of the slit-function decomposition        *)
(* (src/pyreduce/cwrappers.py: slitfunc and slitfunc_curved), the step     *)
(* runner of the reduction (src/pyreduce/reduce.py: Reducer.run_steps),    *)
(* the mask file of the Mask step (Mask.save, Mask.load)                   *)
(* and the splicing of spectral orders                                     *)
(* (src/pyreduce/continuum_normalization.py: splice_orders).               *)
(*                                                                         *)
(* The caller holds one frame (a float64 masked array, a float64 plain     *)
(* array, or a float32 masked array) and hands swath images that are       *)
(* column slices (views) of it to the two entry points.  A call is a       *)
(* sequence of steps, one per group of statements that reads or writes     *)
(* the caller's buffers, so that calls can be run one after another or     *)
(* interleaved.                                                            *)
(*                                                                         *)
(* Numbers.  Pixel values are integers, or NaN for a non-finite value.     *)
(* The trace, tilt and shear are kept in halves (ycen = y2/2), the         *)
(* oversampling argument in halves (osample = os2/2), the smoothing        *)
(* weights in tenths.  The row median of an even number of columns is a    *)
(* half-integer, so the model keeps twice the median; the normalised       *)
(* slit profile sl = median / sum(median) is a ratio and the 6-sigma       *)
(* comparison is done on cross-multiplied integers (see Clipped).          *)
(***************************************************************************)
EXTENDS Integers, Sequences, FiniteSets, TLC

\* ---------------------------------------------------------------- bounds
\* rows of a swath image
NRows == 2
\* columns of a swath image
NCols == 2
\* pixels of the frame that are not clean (non-finite, hot or masked)
MaxBad == 1
\* rows and columns of the large image the robust initializer is run on
RRows == 6
RCols == 8
\* length of the tuples of step names run_steps is called with
MaxSteps == 2
\* pixels of the masks the Mask step saves
MPix == 3
\* orders and columns of the spectra splice_orders is called with, and the
\* largest wavelength
SOrders == 3
SCols == 2
SWave == 3

\* ------------------------------------------------------ program constants
\* a non-finite value (nan, inf): what np.isfinite rejects
NaN == -999
\* size of the median filter window, median_filter(sp, 5)
MedianWindow == 5
\* the clip level, 6 * dev
ClipSigma == 6
\* info = np.zeros(4)
InfoSize == 4

\* ------------------------------------------------------------ arithmetic
Abs(x) == IF x < 0 THEN -x ELSE x

\* the array f with every entry computed: the same function, which TLC would
\* otherwise compute anew each time an entry is read
Eval(f) == f @@ <<>>

\* int(x), ndarray.astype(c_int): truncation toward zero of n/d, d > 0
TruncDiv(n, d) == IF n >= 0 THEN n \div d ELSE -((-n) \div d)

\* np.ceil of n/d for n >= 0, d > 0
CeilDiv(n, d) == (n + d - 1) \div d

Range(s) == {s[i] : i \in DOMAIN s}

\* the sum of the entries lo..hi of s, by halves
RECURSIVE SumRange(_, _, _)
SumRange(s, lo, hi) ==
    IF lo > hi THEN 0
    ELSE IF lo = hi THEN s[lo]
    ELSE LET mid == (lo + hi) \div 2
         IN  SumRange(s, lo, mid) + SumRange(s, mid + 1, hi)
SumSeq(s) == SumRange(s, 1, Len(s))

\* a floating point sum: non-finite as soon as one term is
NSum(s) == IF \E i \in DOMAIN s : s[i] = NaN THEN NaN ELSE SumSeq(s)

MaxOf(S) == CHOOSE x \in S : \A y \in S : y <= x
MinOf(S) == CHOOSE x \in S : \A y \in S : x <= y

\* the k-th smallest entry of the sequence w (k in 1..Len(w))
Kth(w, k) ==
    CHOOSE v \in Range(w) :
        /\ Cardinality({i \in DOMAIN w : w[i] < v}) < k
        /\ Cardinality({i \in DOMAIN w : w[i] <= v}) >= k

\* twice np.median(w): the middle entry, or the mean of the two middle ones
Median2(w) == Kth(w, (Len(w) + 1) \div 2) + Kth(w, (Len(w) + 2) \div 2)

\* scipy.ndimage mode="reflect" (d c b a | a b c d | d c b a): the index
\* inside 1..n that position i of the extended array reads
Reflect(i, n) ==
    LET j == (i - 1) % (2 * n)
    IN  IF j < n THEN j + 1 ELSE 2 * n - j

\* median_filter(sp, 5): the median of the window centred on each entry
MedianFilter(sp) ==
    LET n == Len(sp)
        h == MedianWindow \div 2
    IN  [c \in 1..n |->
            Kth([k \in 1..MedianWindow |-> sp[Reflect(c - h + k - 1, n)]],
                (MedianWindow + 1) \div 2)]

\* ------------------------------------------------- the caller's frame
\* the frame is one column wider than a swath: view v is columns v..v+NCols-1
FCols == NCols + 1
Views == {1, 2}
FPix == (1..NRows) \X (1..FCols)
\* the pixels of a swath image, <<row, column>>
W == (1..NRows) \X (1..NCols)
ToFrame(v, p) == <<p[1], p[2] + v - 1>>
InView(v, q) == q[2] >= v /\ q[2] <= v + NCols - 1
FromFrame(v, q) == <<q[1], q[2] - v + 1>>

\* what the caller's frame is: float64 masked array, float64 ndarray, or a
\* masked array of another dtype
Kinds == {"ma_f64", "nd_f64", "ma_f32"}
HasMask(kind) == kind # "nd_f64"
\* np.asanyarray(img, dtype=c_double) returns the caller's own object when
\* the dtype already is float64, and a converted copy otherwise
SameObject(kind) == kind # "ma_f32"

\* a clean pixel carries the slit profile of its row; a hot pixel is above
\* every clean one
CleanValue(q) == q[1]
Hot == NRows + 2
BadKinds(kind) == IF HasMask(kind) THEN {"nan", "hot", "msk"} ELSE {"nan", "hot"}
FrameData(k) ==
    [q \in FPix |->
        IF q \in DOMAIN k
        THEN (IF k[q] = "nan" THEN NaN
              ELSE IF k[q] = "hot" THEN Hot
              ELSE IF k[q] = "zero" THEN 0
              ELSE IF k[q] = "neg" THEN 0 - Hot
              ELSE CleanValue(q))
        ELSE CleanValue(q)]
FrameMask(k) == [q \in FPix |-> q \in DOMAIN k /\ k[q] = "msk"]
\* the assignments of a bad kind to at most MaxBad pixels
BadMaps(kind) ==
    UNION {[B -> BadKinds(kind)] : B \in {B \in SUBSET FPix : Cardinality(B) <= MaxBad}}
\* a frame whose pixels are all masked
AllMasked == [q \in FPix |-> "msk"]

\* the swath image a view shows
ViewOf(f, v) == [p \in W |-> f[ToFrame(v, p)]]
\* the frame after the view's pixels are stored
StoreView(f, v, a) == [q \in FPix |-> IF InView(v, q) THEN a[FromFrame(v, q)] ELSE f[q]]

\* ---------------------------------------------------------- arguments
Scalar(x) == [scalar |-> TRUE, v |-> <<x>>]
Array(s) == [scalar |-> FALSE, v |-> s]
\* the slitfunc signature has no tilt and no shear
NoCurv == Scalar(0)

\* osample = int(osample)
OsInt(a) == TruncDiv(a.os2, 2)

\* np.full(img.shape[1], tilt) for a scalar, np.asarray(tilt) otherwise
Broadcast(x) == IF x.scalar THEN [c \in 1..NCols |-> x.v[1]] ELSE x.v

AllFinite(s) == \A i \in DOMAIN s : s[i] # NaN

\* the assertions of slitfunc (the image is 2-D, ycen 1-D in every call here)
SlitfuncChecksLax(a) ==
    /\ Len(a.ycen) = NCols
    /\ OsInt(a) >= 0
    /\ a.lsf >= 0
    /\ a.lsp >= 0
SlitfuncChecks(a) ==
    /\ Len(a.ycen) = NCols
    /\ OsInt(a) > 0
    /\ a.lsf >= 0
    /\ a.lsp >= 0

\* the assertions of slitfunc_curved
CurvedChecksNoShear(a) ==
    /\ Len(a.ycen) = NCols
    /\ Len(Broadcast(a.tilt)) = NCols
    /\ Len(Broadcast(a.shear)) = NCols
    /\ OsInt(a) > 0
    /\ a.lsf >= 0
    /\ a.lsp >= 0
    /\ AllFinite(a.ycen)
    /\ AllFinite(Broadcast(a.tilt))
CurvedChecks(a) ==
    /\ Len(a.ycen) = NCols
    /\ Len(Broadcast(a.tilt)) = NCols
    /\ Len(Broadcast(a.shear)) = NCols
    /\ OsInt(a) > 0
    /\ a.lsf >= 0
    /\ a.lsp >= 0
    /\ AllFinite(a.ycen)
    /\ AllFinite(Broadcast(a.tilt))
    /\ AllFinite(Broadcast(a.shear))


\* ny = osample * (nrows + 1) + 1
NyShort(a) == OsInt(a) * NRows + 1
Ny(a) == OsInt(a) * (NRows + 1) + 1

\* ycen.astype(c_int), in whole rows, of a trace value given in halves
YOffset(y2) == TruncDiv(y2, 2)
\* ycen - ycen.astype(c_int), in halves
YFrac(y2) == IF y2 = NaN THEN NaN ELSE y2 - 2 * YOffset(y2)

\* dx = int(np.ceil(np.max(np.abs(tilt*yy + shear*yy**2)))) over
\* yy = arange(-y_lower_lim, nrows + 1 - y_lower_lim); tilt, shear in halves
Dx(a) ==
    LET yl == MinOf({YOffset(a.ycen[c]) : c \in 1..NCols})
        t == Broadcast(a.tilt)
        s == Broadcast(a.shear)
    IN  CeilDiv(MaxOf({Abs(t[c] * y + s[c] * y * y) :
                        c \in 1..NCols, y \in (0 - yl)..(NRows - yl)}), 2)

\* ------------------------------------------------ the robust initializer
\* nrows, ncols = img.shape: an image is a function on (1..nrows) \X (1..ncols)
NRowsOf(img) == Cardinality({p[1] : p \in DOMAIN img})
NColsOf(img) == Cardinality({p[2] : p \in DOMAIN img})
Column(img, c) == Eval([r \in 1..NRowsOf(img) |-> img[<<r, c>>]])
Row(img, r) == Eval([c \in 1..NColsOf(img) |-> img[<<r, c>>]])
\* the image as one sequence, row after row
Flat(e) ==
    LET nc == NColsOf(e)
    IN  [i \in 1..(NRowsOf(e) * nc) |-> e[<<((i - 1) \div nc) + 1, ((i - 1) % nc) + 1>>]]

\* np.sum(img, axis=0)
ColSums(img) == [c \in 1..NColsOf(img) |-> NSum(Column(img, c))]
\* np.ma.sum(img, axis=0): masked entries count as 0
MaskedColSumsPlain(img, mask) == [c \in 1..NCols |-> NSum(Column(img, c))]
MaskedColSums(img, mask) ==
    [c \in 1..NCols |->
        NSum([r \in 1..NRows |-> IF mask[<<r, c>>] THEN 0 ELSE img[<<r, c>>]])]
\* twice np.median(img, axis=1)
RowMedian2(img) == [r \in 1..NRowsOf(img) |-> Median2(Row(img, r))]

\* (model - img) * S2, where model = sl[:, None] * sp[None, :], sp the median
\* filtered column sums, sl = median / sum(median) and S2 = 2 * sum(median)
Residual(img) ==
    LET spf == Eval(MedianFilter(Eval(ColSums(img))))
        m2 == Eval(RowMedian2(img))
        S2 == SumSeq(m2)
    IN  [p \in DOMAIN img |-> m2[p[1]] * spf[p[2]] - img[p] * S2]

RECURSIVE Gcd(_, _)
Gcd(a, b) == IF b = 0 THEN a ELSE Gcd(b, a % b)
\* the greatest common divisor of a set of numbers >= 0
RECURSIVE GcdSet(_)
GcdSet(S) ==
    IF S = {} THEN 0
    ELSE LET x == CHOOSE x \in S : TRUE
         IN  Gcd(x, GcdSet(S \ {x}))

\* the pixels with |model - img| > 6 * dev, dev = (model - img).std().
\* With e = S2 * (model - img) and N pixels, dev^2 = (N*sum(e^2) - sum(e)^2)
\* / (N*S2)^2, so the comparison is N^2 e^2 > 36 (N*sum(e^2) - sum(e)^2).
\* The comparison does not change when every e is divided by the same
\* number; the residuals are divided by their greatest common divisor to
\* keep the squares small.  When sum(median) is 0 the profile, the model and
\* dev are not finite and no comparison is true.
ClippedNever(img) == {}
Clipped(img) ==
    LET e0 == Eval(Residual(img))
        N == NRowsOf(img) * NColsOf(img)
        g0 == GcdSet({Abs(e0[p]) : p \in DOMAIN img})
        g == IF g0 = 0 THEN 1 ELSE g0
        e == Eval([p \in DOMAIN img |-> TruncDiv(e0[p], g)])
        f == Eval(Flat(e))
        s1 == SumSeq(f)
        s2 == SumSeq([i \in DOMAIN f |-> f[i] * f[i]])
    IN  IF SumSeq(RowMedian2(img)) = 0
        THEN {}
        ELSE {p \in DOMAIN img :
                N * N * e[p] * e[p] > ClipSigma * ClipSigma * (N * s2 - s1 * s1)}

\* mask |= ~np.isfinite(img)
OrNonFinite(img, mask) == [p \in DOMAIN img |-> mask[p] \/ img[p] = NaN]
\* img[mask] = 0
ZeroAtKeep(img, mask) == img
ZeroAt(img, mask) == [p \in DOMAIN img |-> IF mask[p] THEN 0 ELSE img[p]]
\* mask[np.abs(model - img) > 6 * dev] = True
OrClipped(img, mask) ==
    LET bad == Clipped(img)
    IN  [p \in DOMAIN img |-> mask[p] \/ p \in bad]
\* mask = np.where(mask, c_int(0), c_int(1))
IntMaskFlipped(mask) == [p \in DOMAIN mask |-> IF mask[p] THEN 1 ELSE 0]
IntMask(mask) == [p \in DOMAIN mask |-> IF mask[p] THEN 0 ELSE 1]

\* sp[:dx] = 0; sp[-dx:] = 0
TrimHead(sp, dx) ==
    IF dx > 0
    THEN [c \in DOMAIN sp |-> IF c <= dx THEN 0 ELSE sp[c]]
    ELSE sp
Trim(sp, dx) ==
    IF dx > 0
    THEN [c \in DOMAIN sp |-> IF c <= dx \/ c > Len(sp) - dx THEN 0 ELSE sp[c]]
    ELSE sp

Zeros(n) == [i \in 1..n |-> 0]

\* ------------------------------------------------------ the native kernel
\* slit_func_vert and slit_func_curved are compiled C code that is not part
\* of the Python sources; the kernel is a deterministic function of what it
\* is handed.  It rejects, among the pixels flagged 1 (good) in the mask it
\* is handed, those it finds to be outliers, sums the accepted pixels of
\* each column into the spectrum, and fills the buffers the wrapper
\* allocated, whose sizes it cannot change.
KRejects(k, p) == k.mask[p] = 1 /\ k.img[p] # NaN /\ k.img[p] > NRows + 1
KAccepted(k, p) == k.mask[p] = 1 /\ ~KRejects(k, p)
KDegenerate(k) == \A p \in W : ~KAccepted(k, p)
KSp(buf, k) ==
    [c \in DOMAIN buf |->
        IF c \in 1..NCols
        THEN NSum([r \in 1..NRows |-> IF KAccepted(k, <<r, c>>) THEN k.img[<<r, c>>] ELSE 0])
        ELSE 0]
KSl(buf, k) == [i \in DOMAIN buf |-> IF KDegenerate(k) THEN 0 ELSE 1]
KModel(buf, k) == [p \in DOMAIN buf |-> IF p \in W /\ KAccepted(k, p) THEN k.img[p] ELSE 0]
KUnc(buf, k) ==
    [c \in DOMAIN buf |-> Cardinality({r \in 1..NRows : c \in 1..NCols /\ KAccepted(k, <<r, c>>)})]
\* slit_func_vert updates the mask it is handed in place, 1 = good
KMask(buf, k) == [p \in DOMAIN buf |-> IF KAccepted(k, p) THEN 1 ELSE 0]
\* slit_func_curved fills mask_out in the kernel's convention, 0 = good
KMaskOut(buf, k) == [p \in DOMAIN buf |-> IF KAccepted(k, p) THEN 0 ELSE 1]
\* diagnostics: the iteration count, then a flag for a degenerate solve
KInfo(buf, k) ==
    [i \in DOMAIN buf |-> IF i = 1 THEN 1 ELSE IF i = 2 /\ KDegenerate(k) THEN 1 ELSE 0]

\* ------------------------------------------------------------- state
VARIABLES
    fdata,   \* the caller's frame: the pixel values
    fmask,   \* the caller's frame: its mask array, TRUE = masked (invalid)
    fkind,   \* what the caller's frame is, one of Kinds
    loc,     \* per call slot (thread): the position and the locals of its call
    prev,    \* the call that returned last: its arguments and results
    rob,     \* a slitfunc_curved call on an image of its own, up to the kernel call
    red,     \* a Reducer.run_steps call
    spl,     \* a splice_orders call
    msk      \* the mask file of the Mask step, and the last save and load

vars == <<fdata, fmask, fkind, loc, prev, rob, red, spl, msk>>
\* the calls of the wrappers leave the other programs alone
wrapvars == <<fdata, fmask, fkind, loc, prev>>

Slots == {1, 2}
Nil == <<>>

\* a slot that is not in a call
Blank ==
    [pc |-> "idle", args |-> Nil, snapD |-> Nil, snapM |-> Nil,
     imgA |-> FALSE, maskA |-> FALSE, img |-> Nil, mask |-> Nil,
     ini |-> Nil, kin |-> Nil, out |-> Nil, res |-> Nil, kcalled |-> FALSE]
NoPrev == [set |-> FALSE, args |-> Nil, kin |-> Nil, res |-> Nil]

\* a call sees the frame and its own locals
Mach(s) == [fd |-> fdata, fm |-> fmask, l |-> loc[s]]

\* img and mask as the call reads them: through the caller's buffer when the
\* local name refers to it (imgA, maskA), else the call's own array
ImgNow(m) == IF m.l.imgA THEN ViewOf(m.fd, m.l.args.view) ELSE m.l.img
MaskNow(m) == IF m.l.maskA THEN ViewOf(m.fm, m.l.args.view) ELSE m.l.mask
PutImg(m, a) ==
    IF m.l.imgA
    THEN [m EXCEPT !.fd = StoreView(m.fd, m.l.args.view, a)]
    ELSE [m EXCEPT !.l.img = a]
PutMask(m, a) ==
    IF m.l.maskA
    THEN [m EXCEPT !.fm = StoreView(m.fm, m.l.args.view, a)]
    ELSE [m EXCEPT !.l.mask = a]
At(m, pc) == [m EXCEPT !.l.pc = pc]

\* np.ma.getmaskarray(img): the mask array of a masked array itself, a new
\* all-False array for an array without a mask.  The converted copy of a
\* non-float64 masked array has a mask of its own.
GetMaskArray(kind, m) ==
    IF ~m.l.imgA
    THEN m
    ELSE IF HasMask(kind)
         THEN [m EXCEPT !.l.maskA = TRUE]
         ELSE [m EXCEPT !.l.mask = [p \in W |-> FALSE]]
\* ------------------------------------------------- slitfunc_curved, steps
\* img = np.asanyarray(img, dtype=c_double): img is the caller's own array
\* when there is nothing to convert, else a copy with a mask of its own
Converted(kind, m, a) ==
    [m EXCEPT !.l = [Blank EXCEPT
        !.pc = "checked",
        !.args = a,
        !.imgA = SameObject(kind),
        !.img = IF SameObject(kind) THEN Nil ELSE ViewOf(m.fd, a.view),
        !.mask = IF SameObject(kind)
                 THEN Nil
                 ELSE [p \in W |-> HasMask(kind) /\ m.fm[ToFrame(a.view, p)]]]]

\* lines 208-209: mask = np.ma.getmaskarray(img); mask |= ~np.isfinite(img)
BuildMask(kind, m) ==
    LET g == GetMaskArray(kind, m)
        img == ImgNow(g)
        mask == MaskNow(g)
    IN  At(PutMask(g, OrNonFinite(img, mask)), "masked")

\* lines 210-211: img = np.ma.getdata(img); img[mask] = 0
ZeroMasked(m) ==
    LET img == ImgNow(m)
        mask == MaskNow(m)
    IN  At(PutImg(m, ZeroAt(img, mask)), "zeroed")

CurvedEnterLate(kind, m, a) ==
    IF CurvedChecks(a)
    THEN Converted(kind, m, a)
    ELSE At(ZeroMasked(BuildMask(kind, Converted(kind, m, a))), "error")
\* lines 160-198: the conversions, then the assertions, which raise before
\* anything is stored
CurvedEnter(kind, m, a) ==
    IF CurvedChecks(a) THEN Converted(kind, m, a) ELSE At(Converted(kind, m, a), "error")

\* lines 218-226: the trial model, mask[|model - img| > 6*dev] = True,
\* img[mask] = 0.  ini keeps the first guesses the trial model is built from:
\* the column sums (line 218) and twice the row medians (line 220).
ClipOutliers(m) ==
    LET img == ImgNow(m)
        mask == MaskNow(m)
        mask2 == OrClipped(img, mask)
        n == At(PutImg(PutMask(m, mask2), ZeroAt(img, mask2)), "clipped")
    IN  [n EXCEPT !.l.ini = [sp |-> ColSums(img), sl2 |-> RowMedian2(img)]]

\* lines 227-262: the initial spectrum, the integer mask, the uncertainties,
\* the curvature padding and the buffers of the kernel.  np.require copies a
\* view (it does not own its data), so the kernel reads the call's own img.
CurvedPrepare(m) ==
    LET a == m.l.args
        img == ImgNow(m)
        mask == MaskNow(m)
        dx == Dx(a)
    IN  [m EXCEPT
            !.l.pc = "ready",
            !.l.kin =
                [ncols |-> NCols, nrows |-> NRows, nx |-> 2 * dx + 1, ny |-> Ny(a),
                 img |-> img,
                 pix_unc2 |-> [p \in W |-> Abs(img[p])],
                 mask |-> IntMask(mask),
                 ycen |-> [c \in 1..NCols |-> YFrac(a.ycen[c])],
                 ycen_offset |-> [c \in 1..NCols |-> YOffset(a.ycen[c])],
                 y_lower_lim |-> MinOf({YOffset(a.ycen[c]) : c \in 1..NCols}),
                 osample |-> OsInt(a), lambda_sp |-> a.lsp, lambda_sf |-> a.lsf,
                 tilt |-> Broadcast(a.tilt), shear |-> Broadcast(a.shear),
                 sp |-> ColSums(img),
                 l_aij |-> <<Ny(a), 4 * OsInt(a) + 1>>, l_bj |-> <<Ny(a)>>,
                 p_aij |-> <<NCols, 5>>, p_bj |-> <<NCols>>],
            !.l.out =
                [sp |-> ColSums(img), sl |-> Zeros(Ny(a)),
                 model |-> [p \in W |-> 0], unc |-> Zeros(NCols),
                 mask |-> [p \in W |-> 1], info |-> Zeros(InfoSize)]]

\* lines 266-291: slit_func_curved fills sp, sl, model, unc, mask_out, info
CurvedKernel(l) ==
    [l EXCEPT
        !.pc = "called",
        !.kcalled = TRUE,
        !.out = [sp |-> KSp(l.out.sp, l.kin), sl |-> KSl(l.out.sl, l.kin),
                 model |-> KModel(l.out.model, l.kin), unc |-> KUnc(l.out.unc, l.kin),
                 mask |-> KMaskOut(l.out.mask, l.kin), info |-> KInfo(l.out.info, l.kin)]]

\* lines 293-298: mask = mask_out == 0; the edge columns of sp are zeroed
CurvedFinish(l) ==
    [l EXCEPT
        !.pc = "done",
        !.res = [sp |-> Trim(l.out.sp, Dx(l.args)), sl |-> l.out.sl,
                 model |-> l.out.model, unc |-> l.out.unc,
                 mask |-> [p \in DOMAIN l.out.mask |-> l.out.mask[p] = 0],
                 info |-> l.out.info]]

\* ---------------------------------------------------------- slitfunc, steps
\* lines 89-112: sp = np.ma.sum(img, axis=0); mask = ~np.ma.getmaskarray(img)
\* as a new integer array; img = np.ma.getdata(img), copied by np.require;
\* pix_unc = zeros.  Nothing is stored into the caller's arrays.
SfPrepareInPlace(kind, m) ==
    LET g == GetMaskArray(kind, m)
        a == g.l.args
        img == ImgNow(g)
        mask == MaskNow(g)
        h == PutMask(g, [p \in W |-> ~mask[p]])
    IN  [h EXCEPT
            !.l.pc = "ready",
            !.l.kin =
                [ncols |-> NCols, nrows |-> NRows,
                 img |-> img,
                 pix_unc2 |-> [p \in W |-> 0],
                 mask |-> [p \in W |-> IF mask[p] THEN 0 ELSE 1],
                 ycen |-> [c \in 1..NCols |-> YFrac(a.ycen[c])],
                 osample |-> OsInt(a), lambda_sp |-> a.lsp, lambda_sf |-> a.lsf,
                 sp |-> MaskedColSums(img, mask)],
            !.l.out =
                [sp |-> MaskedColSums(img, mask), sl |-> Zeros(Ny(a)),
                 model |-> [p \in W |-> 0], unc |-> Zeros(NCols),
                 mask |-> [p \in W |-> IF mask[p] THEN 0 ELSE 1]]]
SfPrepare(kind, m) ==
    LET g == GetMaskArray(kind, m)
        a == g.l.args
        img == ImgNow(g)
        mask == MaskNow(g)
    IN  [g EXCEPT
            !.l.pc = "ready",
            !.l.kin =
                [ncols |-> NCols, nrows |-> NRows,
                 img |-> img,
                 pix_unc2 |-> [p \in W |-> 0],
                 mask |-> [p \in W |-> IF mask[p] THEN 0 ELSE 1],
                 ycen |-> [c \in 1..NCols |-> YFrac(a.ycen[c])],
                 osample |-> OsInt(a), lambda_sp |-> a.lsp, lambda_sf |-> a.lsf,
                 sp |-> MaskedColSums(img, mask)],
            !.l.out =
                [sp |-> MaskedColSums(img, mask), sl |-> Zeros(Ny(a)),
                 model |-> [p \in W |-> 0], unc |-> Zeros(NCols),
                 mask |-> [p \in W |-> IF mask[p] THEN 0 ELSE 1]]]

\* lines 115-129: slit_func_vert fills sp, sl, model, unc and updates mask
SfKernel(l) ==
    [l EXCEPT
        !.pc = "called",
        !.kcalled = TRUE,
        !.out = [sp |-> KSp(l.out.sp, l.kin), sl |-> KSl(l.out.sl, l.kin),
                 model |-> KModel(l.out.model, l.kin), unc |-> KUnc(l.out.unc, l.kin),
                 mask |-> KMask(l.out.mask, l.kin)]]

\* lines 130-132: mask = ~mask.astype(bool); return sp, sl, model, unc, mask
SfFinish(l) ==
    [l EXCEPT
        !.pc = "done",
        !.res = [sp |-> l.out.sp, sl |-> l.out.sl, model |-> l.out.model,
                 unc |-> l.out.unc,
                 mask |-> [p \in DOMAIN l.out.mask |-> ~(l.out.mask[p] # 0)]]]

\* lines 68-86: the conversions, then the assertions
SfEnter(kind, m, a) ==
    IF SlitfuncChecks(a) THEN Converted(kind, m, a) ELSE At(Converted(kind, m, a), "error")

\* ------------------------------------------------------------- actions
Arg(fn, view, ycen, tilt, shear, lsp, lsf, os2) ==
    [fn |-> fn, view |-> view, ycen |-> ycen, tilt |-> tilt, shear |-> shear,
     lsp |-> lsp, lsf |-> lsf, os2 |-> os2]

Install(s, m) ==
    /\ fdata' = m.fd
    /\ fmask' = m.fm
    /\ loc' = [loc EXCEPT ![s] = m.l]
    /\ UNCHANGED <<fkind, prev, rob, red, spl, msk>>

Local(s, l) ==
    /\ loc' = [loc EXCEPT ![s] = l]
    /\ UNCHANGED <<fdata, fmask, fkind, prev, rob, red, spl, msk>>

Pc(s) == loc[s].pc
Fn(s) == loc[s].args.fn

\* the caller calls slitfunc or slitfunc_curved with arguments drawn from A;
\* snapD and snapM remember the frame as it was handed over
Enter(s, A) ==
    /\ Pc(s) = "idle"
    /\ \E a \in A :
        LET m == IF a.fn = "slitfunc"
                 THEN SfEnter(fkind, Mach(s), a)
                 ELSE CurvedEnter(fkind, Mach(s), a)
        IN  Install(s, [m EXCEPT !.l.snapD = fdata, !.l.snapM = fmask])

BuildMaskStep(s) ==
    /\ Pc(s) = "checked" /\ Fn(s) = "slitfunc_curved"
    /\ Install(s, BuildMask(fkind, Mach(s)))

ZeroMaskedStep(s) ==
    /\ Pc(s) = "masked"
    /\ Install(s, ZeroMasked(Mach(s)))

ClipStep(s) ==
    /\ Pc(s) = "zeroed"
    /\ Install(s, ClipOutliers(Mach(s)))

CurvedPrepareStep(s) ==
    /\ Pc(s) = "clipped"
    /\ Install(s, CurvedPrepare(Mach(s)))

CurvedKernelStep(s) ==
    /\ Pc(s) = "ready" /\ Fn(s) = "slitfunc_curved"
    /\ Local(s, CurvedKernel(loc[s]))

CurvedFinishStep(s) ==
    /\ Pc(s) = "called" /\ Fn(s) = "slitfunc_curved"
    /\ Local(s, CurvedFinish(loc[s]))

SfPrepareStep(s) ==
    /\ Pc(s) = "checked" /\ Fn(s) = "slitfunc"
    /\ Install(s, SfPrepare(fkind, Mach(s)))

SfKernelStep(s) ==
    /\ Pc(s) = "ready" /\ Fn(s) = "slitfunc"
    /\ Local(s, SfKernel(loc[s]))

SfFinishStep(s) ==
    /\ Pc(s) = "called" /\ Fn(s) = "slitfunc"
    /\ Local(s, SfFinish(loc[s]))

\* the call returns and the caller keeps what it returned
ReturnKeep(s) ==
    /\ Pc(s) = "done"
    /\ prev' = [set |-> TRUE, args |-> loc[s].args, kin |-> loc[s].kin, res |-> loc[s].res]
    /\ loc' = [loc EXCEPT ![s] = Blank]
    /\ UNCHANGED <<fdata, fmask, fkind, rob, red, spl, msk>>

\* the call returns
Return(s) ==
    /\ Pc(s) = "done"
    /\ Local(s, Blank)

\* the AssertionError reaches the caller
Raise(s) ==
    /\ Pc(s) = "error"
    /\ Local(s, Blank)

Steps(s) ==
    \/ BuildMaskStep(s)
    \/ ZeroMaskedStep(s)
    \/ ClipStep(s)
    \/ CurvedPrepareStep(s)
    \/ CurvedKernelStep(s)
    \/ CurvedFinishStep(s)
    \/ SfPrepareStep(s)
    \/ SfKernelStep(s)
    \/ SfFinishStep(s)

\* ------------------------- slitfunc_curved on an image of any shape
\* Lines 208-229 of slitfunc_curved for a caller whose image is a plain
\* array without a mask and is not float64, so that the call works on its
\* own copy: the mask, the cleaning of the image, the 6-sigma clip and the
\* initial spectrum and integer mask that the kernel is handed.
RobIdle == [pc |-> "idle", gen |-> Nil, img |-> Nil, mask |-> Nil, kmask |-> Nil, sp |-> Nil]

\* the images: a slit profile times a spectrum, noiseless, with at most one
\* of a spectral feature one column wide and an outlier pixel
RShapes == {<<2, 3>>, <<2, 17>>, <<5, 7>>, <<RRows, RCols>>}
NoPixel == <<0, 0>>
Slit(g, r) == IF g.prof = "peaked" /\ r = (g.shape[1] + 1) \div 2 THEN 4 ELSE 1
Spectrum(g, c) == IF c = g.spike THEN 2 ELSE 1
RobImage(g) ==
    [p \in (1..g.shape[1]) \X (1..g.shape[2]) |->
        IF p = g.out THEN 100 * Slit(g, p[1]) * Spectrum(g, p[2])
        ELSE Slit(g, p[1]) * Spectrum(g, p[2])]
RobInputs ==
    UNION {{[shape |-> sh, prof |-> pr, spike |-> k, out |-> o] :
                pr \in {"flat", "peaked"},
                k \in 0..sh[2],
                o \in {NoPixel} \cup ((1..sh[1]) \X (1..sh[2]))} : sh \in RShapes}

\* lines 159-206: the call is made with an image that passes the assertions;
\* np.ma.getmaskarray of an array without a mask is all False
RobEnter ==
    /\ rob.pc = "idle"
    /\ \E g \in RobInputs :
        /\ g.spike = 0 \/ g.out = NoPixel
        /\ rob' = [RobIdle EXCEPT !.pc = "checked", !.gen = g, !.img = RobImage(g),
                                  !.mask = [p \in DOMAIN RobImage(g) |-> FALSE]]
    /\ UNCHANGED <<wrapvars, red, spl, msk>>

\* lines 208-209
RobBuildMask ==
    /\ rob.pc = "checked"
    /\ rob' = [rob EXCEPT !.pc = "masked", !.mask = OrNonFinite(rob.img, rob.mask)]
    /\ UNCHANGED <<wrapvars, red, spl, msk>>

\* lines 210-211
RobZeroMasked ==
    /\ rob.pc = "masked"
    /\ rob' = [rob EXCEPT !.pc = "zeroed", !.img = ZeroAt(rob.img, rob.mask)]
    /\ UNCHANGED <<wrapvars, red, spl, msk>>

\* lines 218-226
RobClipOutliers ==
    /\ rob.pc = "zeroed"
    /\ LET mask2 == OrClipped(rob.img, rob.mask)
       IN  rob' = [rob EXCEPT !.pc = "clipped", !.mask = mask2,
                              !.img = ZeroAt(rob.img, mask2)]
    /\ UNCHANGED <<wrapvars, red, spl, msk>>

\* lines 227-229
RobPrepare ==
    /\ rob.pc = "clipped"
    /\ rob' = [rob EXCEPT !.pc = "ready", !.sp = ColSums(rob.img),
                          !.kmask = IntMask(rob.mask)]
    /\ UNCHANGED <<wrapvars, red, spl, msk>>

\* ------------------------------------------------- Reducer.run_steps
\* src/pyreduce/reduce.py.  The steps argument is the string "all" or a
\* tuple of step names; a string is iterated character by character.
step_order ==
    [bias |-> 0, flat |-> 1, orders |-> 2, norm_flat |-> 3, wavecal |-> 4,
     frequency_comb |-> 5, shear |-> 6, science |-> 7, continuum |-> 8, finalize |-> 9]
StepNames == DOMAIN step_order
\* self.modules = {"mask": Mask, "bias": Bias, "flat": Flat}
Modules == {"mask", "bias", "flat"}
\* the _dependsOn list each Step subclass builds in __init__
DependsOn(step) ==
    IF step = "bias" THEN <<"mask">> ELSE IF step = "flat" THEN <<"mask", "bias">> ELSE <<>>

AllString == [str |-> TRUE, items |-> <<"a", "l", "l">>]
Tuple(t) == [str |-> FALSE, items |-> t]

RedIdle ==
    [pc |-> "idle", steps |-> Nil, last_step |-> Nil, i |-> 0, ran |-> <<>>, exc |-> "none"]

\* the step with the largest step_order: new_steps.sort(...); new_steps[-1]
LastOf(t) ==
    CHOOSE x \in Range(t) : \A y \in Range(t) : step_order[y] <= step_order[x]

\* run_module(step, load): what the call raises, or "none" when the module
\* has run.  self.modules[step] raises KeyError for a step that has no
\* module; Bias.__init__ raises AttributeError at self._loadDependsOn +=
\* ["mask"], an attribute no class initialises; a dependency is run with
\* load=True, where module.loadDependsOn, which no class defines, raises
\* AttributeError; Mask.run takes no files and self.files has no "mask".
RunModule(step, load) ==
    IF step \notin Modules THEN "KeyError"
    ELSE IF step = "bias" THEN "AttributeError"
    ELSE IF load THEN "AttributeError"
    ELSE IF DependsOn(step) # <<>> THEN "AttributeError"
    ELSE IF step = "mask" THEN "KeyError"
    ELSE "none"

\* lines 961-980: last_step, self.modules, self.data, self.inputs
RunStepsCall(A) ==
    /\ red.pc = "idle"
    /\ \E a \in A :
        red' =
            IF a.str
            THEN [RedIdle EXCEPT !.pc = "loop", !.steps = a, !.last_step = "finalize", !.i = 1]
            ELSE IF \E x \in Range(a.items) : x \notin StepNames
                 THEN [RedIdle EXCEPT !.pc = "raised", !.steps = a, !.exc = "KeyError"]
                 ELSE IF a.items = <<>>
                      THEN [RedIdle EXCEPT !.pc = "raised", !.steps = a, !.exc = "IndexError"]
                      ELSE [RedIdle EXCEPT !.pc = "loop", !.steps = a,
                                           !.last_step = LastOf(a.items), !.i = 1]
    /\ UNCHANGED <<wrapvars, rob, spl, msk>>

\* lines 982-983: for step in steps: self.run_module(step); after the loop
\* lines 986-989 call self.run_bias() or self.load_bias(), methods the
\* Reducer does not define (AttributeError)
RunStepsLoop ==
    /\ red.pc = "loop"
    /\ red' =
        IF red.i <= Len(red.steps.items)
        THEN LET step == red.steps.items[red.i]
                 e == RunModule(step, FALSE)
             IN  IF e = "none"
                 THEN [red EXCEPT !.i = red.i + 1, !.ran = Append(red.ran, step)]
                 ELSE [red EXCEPT !.pc = "raised", !.exc = e]
        ELSE [red EXCEPT !.pc = "raised", !.exc = "AttributeError"]
    /\ UNCHANGED <<wrapvars, rob, spl, msk>>

\* the exception reaches the caller of run_steps
RunStepsRaise ==
    /\ red.pc = "raised"
    /\ red' = RedIdle
    /\ UNCHANGED <<wrapvars, rob, spl, msk>>

\* what a run_steps call with the steps argument a ends with
RECURSIVE LoopOutcome(_, _, _)
LoopOutcome(items, i, ran) ==
    IF i > Len(items) THEN [exc |-> "AttributeError", ran |-> ran]
    ELSE IF RunModule(items[i], FALSE) = "none"
         THEN LoopOutcome(items, i + 1, Append(ran, items[i]))
         ELSE [exc |-> RunModule(items[i], FALSE), ran |-> ran]
RunStepsOutcome(a) ==
    IF ~a.str /\ \E x \in Range(a.items) : x \notin StepNames
    THEN [exc |-> "KeyError", ran |-> <<>>]
    ELSE IF ~a.str /\ a.items = <<>>
         THEN [exc |-> "IndexError", ran |-> <<>>]
         ELSE LoopOutcome(a.items, 1, <<>>)

\* ------------------------------------------------------- the Mask step
\* src/pyreduce/reduce.py, class Mask.  A mask is TRUE at a bad pixel;
\* msk.file is the array in the mask file, Nil when there is no file.
\* lines 271-273: fits.writeto(mask_file, data=(~mask).astype(int)), without
\* overwrite=True: when the file exists OSError is raised and the file stays
MaskSave(m) ==
    /\ msk' =
        IF msk.file = Nil
        THEN [file |-> [p \in DOMAIN m |-> IF ~m[p] THEN 1 ELSE 0], m |-> m,
              out |-> Nil, exc |-> "none"]
        ELSE [msk EXCEPT !.m = m, !.out = Nil, !.exc = "OSError"]
    /\ UNCHANGED <<wrapvars, rob, red, spl>>

\* lines 275-281: mask = ~mask.data.astype(bool) of the array util.load_fits
\* reads from the mask file
MaskLoad ==
    /\ msk.file # Nil /\ msk.out = Nil
    /\ msk' = [msk EXCEPT !.out = [p \in DOMAIN msk.file |-> ~(msk.file[p] # 0)]]
    /\ UNCHANGED <<wrapvars, rob, red, spl>>

\* ---------------------------------------------------- splice_orders
\* src/pyreduce/continuum_normalization.py.  Orders and columns are counted
\* from 0 as in the source.  wave[o] is the wavelength of each column of
\* order o; the flux, continuum and error values are not followed, only
\* which orders the call reads and writes.
SplIdle ==
    [pc |-> "idle", a |-> Nil, nslice |-> 0, mask |-> Nil, iord0 |-> Nil,
     pairs |-> <<>>, k |-> 0,
     pre |-> {}, written |-> {}, read |-> {}, exc |-> "none"]

NOrdOf(a) == Cardinality(DOMAIN a.wave)
NColOf(a) == Cardinality(DOMAIN a.wave[0])
\* lines 60-64: the defaults of column_range and order_range
ColumnRange(a) ==
    IF a.column_range = Nil THEN [o \in DOMAIN a.wave |-> <<0, NColOf(a)>>] ELSE a.column_range
OrderRange(a) == IF a.order_range = Nil THEN <<0, NOrdOf(a) - 1>> ELSE a.order_range

\* lines 67-70: mask = np.full(spec.shape, True), cleared inside the column
\* range of each order of the order range
SpliceMask(a) ==
    [o \in DOMAIN a.wave |->
        [c \in DOMAIN a.wave[0] |->
            ~(/\ o >= OrderRange(a)[1] /\ o <= OrderRange(a)[2]
              /\ c >= ColumnRange(a)[o][1] /\ c < ColumnRange(a)[o][2])]]

\* lines 72-75: np.ma.masked_array(spec[first : last + 1, :], mask=mask)
\* raises MaskError unless mask and data have the same number of entries
\* (or the mask has one entry)
MaskFits(a) ==
    LET nd == (OrderRange(a)[2] - OrderRange(a)[1] + 1) * NColOf(a)
        nm == NOrdOf(a) * NColOf(a)
    IN  nm = nd \/ nm = 1

\* lines 93-96: from iord0 outwards, first to the top, then to the bottom.
\* down: range(i, 0, -1) zipped with range(i - 1, -1, -1); up: range(i,
\* nord - 1) zipped with range(i + 1, nord)
SplicePairsUpFirst(iord0, nord) ==
    LET down == [k \in 1..iord0 |-> <<iord0 - k + 1, iord0 - k>>]
        up == [k \in 1..(nord - 1 - iord0) |-> <<iord0 + k - 1, iord0 + k>>]
    IN  up \o down
SplicePairs(iord0, nord) ==
    LET down == [k \in 1..iord0 |-> <<iord0 - k + 1, iord0 - k>>]
        up == [k \in 1..(nord - 1 - iord0) |-> <<iord0 + k - 1, iord0 + k>>]
    IN  down \o up

\* np.ma.min / np.ma.max of the wavelengths of an order: over the columns
\* that are not masked
WMin(sp, o) == MinOf({sp.a.wave[o][c] : c \in {c \in DOMAIN sp.mask[o] : ~sp.mask[o][c]}})
WMax(sp, o) == MaxOf({sp.a.wave[o][c] : c \in {c \in DOMAIN sp.mask[o] : ~sp.mask[o][c]}})
\* lines 106-107: np.where((w0 >= min(w1)) & (w0 <= max(w1))), the columns of
\* order o0 whose wavelength lies in the range of order o1
Where(sp, o0, o1) ==
    {c \in DOMAIN sp.a.wave[o0] :
        sp.a.wave[o0][c] >= WMin(sp, o1) /\ sp.a.wave[o0][c] <= WMax(sp, o1)}
\* line 110
Overlap(sp, o0, o1) == Where(sp, o0, o1) # {} /\ Where(sp, o1, o0) # {}

\* lines 59-94: the defaults, the mask, the masked arrays, the scaling of the
\* continuum and the order with the largest signal, which depends on the
\* flux and is any order of the masked arrays
SpliceCall(A) ==
    /\ spl.pc = "idle"
    /\ \E a \in A :
        IF ~MaskFits(a)
        THEN spl' = [SplIdle EXCEPT !.pc = "raised", !.a = a, !.mask = SpliceMask(a),
                                    !.exc = "MaskError"]
        ELSE \E iord0 \in 0..(OrderRange(a)[2] - OrderRange(a)[1]) :
                spl' = [SplIdle EXCEPT
                            !.pc = "loop", !.a = a, !.mask = SpliceMask(a),
                            !.nslice = OrderRange(a)[2] - OrderRange(a)[1] + 1,
                            !.iord0 = iord0,
                            !.pairs = SplicePairs(iord0, NOrdOf(a)), !.k = 1]
    /\ UNCHANGED <<wrapvars, rob, red, msk>>

\* lines 96-136, one pass of the loop: the two orders are spliced where they
\* overlap, or NotImplementedError is raised
SplicePair ==
    /\ spl.pc = "loop"
    /\ spl.k <= Len(spl.pairs)
    /\ LET o0 == spl.pairs[spl.k][1]
           o1 == spl.pairs[spl.k][2]
       IN  spl' =
            IF Overlap(spl, o0, o1)
            THEN [spl EXCEPT !.k = spl.k + 1, !.pre = spl.written,
                             !.read = spl.read \cup {o0, o1},
                             !.written = spl.written \cup {o0, o1}]
            ELSE [spl EXCEPT !.pc = "raised", !.pre = spl.written,
                             !.read = spl.read \cup {o0, o1},
                             !.exc = "NotImplementedError"]
    /\ UNCHANGED <<wrapvars, rob, red, msk>>

\* line 166: return spec, wave, cont, sigm
SpliceReturn ==
    /\ spl.pc = "loop"
    /\ spl.k > Len(spl.pairs)
    /\ spl' = [spl EXCEPT !.pc = "returned"]
    /\ UNCHANGED <<wrapvars, rob, red, msk>>

\* the caller has the result or the exception
SpliceOver ==
    /\ spl.pc \in {"raised", "returned"}
    /\ spl' = SplIdle
    /\ UNCHANGED <<wrapvars, rob, red, msk>>

\* ---------------------------------------------------------- the inputs
\* traces, in halves of a row
YcenOK == [c \in 1..NCols |-> 1]
YcenVar == [c \in 1..NCols |-> IF c = 1 THEN -3 ELSE 2]
YcenNaN == [c \in 1..NCols |-> IF c = NCols THEN NaN ELSE 1]
\* a trace that climbs across the swath: half a row in the first column, one
\* row in the others
YcenStep == [c \in 1..NCols |-> IF c = 1 THEN 1 ELSE 2]
\* and traces with a column too many and a column too few
Ycens ==
    {YcenOK, YcenVar, YcenNaN, YcenStep,
     [c \in 1..(NCols + 1) |-> 1], [c \in 1..(NCols - 1) |-> 1]}
\* tilt and shear, in halves: a scalar, or one value per column
Curvs ==
    {Scalar(1), Scalar(NaN), Scalar(4), Scalar(-2),
     Array([c \in 1..NCols |-> c - 1]),
     Array([c \in 1..NCols |-> IF c = 1 THEN NaN ELSE 0]),
     Array([c \in 1..(NCols + 1) |-> 0])}

\* calls that pass the assertions: both entry points, both views, a straight
\* slit (dx = 0, no column of the spectrum is trimmed)
GoodArgs ==
    {Arg("slitfunc", v, YcenOK, NoCurv, NoCurv, 0, 1, 2) : v \in Views}
    \cup {Arg("slitfunc_curved", v, YcenOK, Scalar(0), Scalar(0), 0, 1, 2) : v \in Views}

\* calls with any arguments, on the first view
AnyArgs ==
    {Arg("slitfunc", 1, y, NoCurv, NoCurv, lsp, lsf, os2) :
        y \in Ycens, lsp \in -1..1, lsf \in -1..1, os2 \in -2..4}
    \cup {Arg("slitfunc_curved", 1, y, t, sh, lsp, lsf, os2) :
            y \in Ycens, t \in Curvs, sh \in Curvs,
            lsp \in -1..1, lsf \in -1..1, os2 \in -2..4}

InitFrame ==
    /\ fkind \in Kinds
    /\ \E k \in BadMaps(fkind) \cup (IF HasMask(fkind) THEN {AllMasked} ELSE {}) :
            fdata = FrameData(k) /\ fmask = FrameMask(k)

\* no call of the other programs is under way
Quiet ==
    /\ rob = RobIdle /\ red = RedIdle /\ spl = SplIdle
    /\ msk = [file |-> Nil, m |-> Nil, out |-> Nil, exc |-> "none"]

Init ==
    /\ InitFrame
    /\ loc = [s \in Slots |-> Blank]
    /\ prev = NoPrev
    /\ Quiet

\* one caller, one call after the other
Next ==
    \/ Enter(1, GoodArgs)
    \/ Steps(1)
    \/ ReturnKeep(1)

Spec == Init /\ [][Next]_vars

\* a frame with a non-finite pixel and, when it has a mask, a masked pixel
DirtyMap(kind) ==
    [q \in {<<1, 1>>} \cup (IF HasMask(kind) THEN {<<NRows, NCols>>} ELSE {}) |->
        IF q = <<1, 1>> THEN "nan" ELSE "msk"]

InitValidate ==
    /\ fkind \in Kinds
    /\ fdata = FrameData(DirtyMap(fkind))
    /\ fmask = FrameMask(DirtyMap(fkind))
    /\ loc = [s \in Slots |-> Blank]
    /\ prev = NoPrev
    /\ Quiet

\* one caller, calls with any arguments: a call raises or runs to its end
NextValidate ==
    \/ Enter(1, AnyArgs)
    \/ Steps(1)
    \/ Return(1)
    \/ Raise(1)

SpecValidate == InitValidate /\ [][NextValidate]_vars

\* two threads, each calling once on its own swath (view) of the one frame
NextConc ==
    \E s \in Slots :
        \/ Enter(s, {g \in GoodArgs : g.view = s})
        \/ Steps(s)

SpecConc == Init /\ [][NextConc]_vars

\* a frame with pixels that are zero or negative: one column of zeros, only
\* zeros, one negative pixel or, for a frame with a mask, one column masked
InitSigned ==
    /\ fkind \in Kinds
    /\ \E k \in {[q \in {q \in FPix : q[2] = c} |-> "zero"] : c \in 1..FCols}
               \cup {[q \in FPix |-> "zero"]}
               \cup {[q \in {x} |-> "neg"] : x \in FPix}
               \cup (IF HasMask(fkind)
                     THEN {[q \in {q \in FPix : q[2] = c} |-> "msk"] : c \in 1..FCols}
                     ELSE {}) :
            fdata = FrameData(k) /\ fmask = FrameMask(k)
    /\ loc = [s \in Slots |-> Blank]
    /\ prev = NoPrev
    /\ Quiet

\* one caller, one valid call after the other, on such a frame
SpecSigned == InitSigned /\ [][Next]_vars

\* ------------------------------------------- the other programs, alone
\* the wrappers are not called
InitQuiet ==
    /\ fkind = "nd_f64"
    /\ fdata = FrameData(<<>>)
    /\ fmask = FrameMask(<<>>)
    /\ loc = [s \in Slots |-> Blank]
    /\ prev = NoPrev
    /\ Quiet

\* slitfunc_curved up to the kernel call, on an image of any shape
NextRobust ==
    \/ RobEnter
    \/ RobBuildMask
    \/ RobZeroMasked
    \/ RobClipOutliers
    \/ RobPrepare

SpecRobust == InitQuiet /\ [][NextRobust]_vars

\* the steps arguments: "all", the tuple of all step names, the tuples of
\* up to MaxSteps different step names, and a name that is not a step
AllSteps ==
    <<"bias", "flat", "orders", "norm_flat", "wavecal", "frequency_comb", "shear",
      "science", "continuum", "finalize">>
StepArgs ==
    {AllString, Tuple(AllSteps), Tuple(<<"mask">>)}
    \cup {Tuple(t) : t \in {u \in UNION {[1..n -> StepNames] : n \in 0..MaxSteps} :
                                \A i, j \in DOMAIN u : u[i] = u[j] => i = j}}

NextSteps ==
    \/ RunStepsCall(StepArgs)
    \/ RunStepsLoop
    \/ RunStepsRaise

SpecSteps == InitQuiet /\ [][NextSteps]_vars

\* the spectra: every order has wavelengths that increase along the columns
Waves ==
    {w \in [0..(SCols - 1) -> 0..SWave] : \A c \in 1..(SCols - 1) : w[c - 1] < w[c]}
\* the calls on given wavelengths.  order_range: the default, or any first
\* and last order with first <= last; column_range: the default, or the
\* last column of every order left out
SpliceArgs(w) ==
    {[wave |-> w, order_range |-> r, column_range |-> cr] :
        r \in {Nil} \cup {fl \in (0..(SOrders - 1)) \X (0..(SOrders - 1)) : fl[1] <= fl[2]},
        cr \in {Nil, [o \in 0..(SOrders - 1) |-> <<0, SCols - 1>>]}}

NextSplice ==
    \/ \E w \in [0..(SOrders - 1) -> Waves] : SpliceCall(SpliceArgs(w))
    \/ SplicePair
    \/ SpliceReturn
    \/ SpliceOver

SpecSplice == InitQuiet /\ [][NextSplice]_vars

\* calls with the default order_range and column_range, on orders whose
\* wavelengths rise by one from column to column
NextSpliceAll ==
    \/ \E w \in [0..(SOrders - 1) ->
                    {v \in Waves : \A c \in 1..(SCols - 1) : v[c] = v[c - 1] + 1}] :
            SpliceCall({[wave |-> w, order_range |-> Nil, column_range |-> Nil]})
    \/ SplicePair
    \/ SpliceReturn
    \/ SpliceOver

SpecSpliceAll == InitQuiet /\ [][NextSpliceAll]_vars

\* masks of MPix pixels are saved and loaded, in any order
NextMask ==
    \/ \E m \in [1..MPix -> BOOLEAN] : MaskSave(m)
    \/ MaskLoad

SpecMask == InitQuiet /\ [][NextMask]_vars

\* what a call with arguments a returns when it runs alone on a frame
RunAlone(kind, fd, fm, a) ==
    LET m0 == [fd |-> fd, fm |-> fm, l |-> Blank]
    IN  IF a.fn = "slitfunc"
        THEN SfFinish(SfKernel(SfPrepare(kind, SfEnter(kind, m0, a)).l)).res
        ELSE CurvedFinish(CurvedKernel(CurvedPrepare(ClipOutliers(ZeroMasked(
                 BuildMask(kind, CurvedEnter(kind, m0, a))))).l)).res

\* ==================================================================
\* The claims
\* ==================================================================

\* what the interface asks of a call: the trace has one entry per column,
\* oversampling is an integer >= 1, the smoothing weights are >= 0 and, for
\* slitfunc_curved, trace, tilt and shear are finite and tilt and shear are
\* scalars or have one entry per column
ShapeOK(x) == x.scalar \/ Len(x.v) = NCols
Preconditions(a) ==
    /\ Len(a.ycen) = NCols
    /\ a.os2 >= 2 /\ a.os2 % 2 = 0
    /\ a.lsp >= 0 /\ a.lsf >= 0
    /\ a.fn = "slitfunc_curved" =>
        /\ AllFinite(a.ycen)
        /\ ShapeOK(a.tilt) /\ AllFinite(a.tilt.v)
        /\ ShapeOK(a.shear) /\ AllFinite(a.shear.v)

InCall(s) == Pc(s) # "idle"

\* C1: for both entry points a call fails with a validation error whenever
\* the trace length differs from the column count, oversampling is <= 0 or a
\* smoothing weight is negative, and no call that satisfies every
\* precondition is rejected.
C1_ValidationRejects ==
    \A s \in Slots : InCall(s) =>
        LET a == loc[s].args
        IN  /\ (Len(a.ycen) # NCols \/ a.os2 <= 0 \/ a.lsp < 0 \/ a.lsf < 0)
                => Pc(s) = "error"
            /\ Preconditions(a) => Pc(s) # "error"

\* a slitfunc call whose only fault is oversampling = 0 has raised
C1_Witness ==
    \E s \in Slots :
        /\ Pc(s) = "error" /\ Fn(s) = "slitfunc"
        /\ loc[s].args.os2 = 0
        /\ Len(loc[s].args.ycen) = NCols
        /\ loc[s].args.lsp >= 0 /\ loc[s].args.lsf >= 0

\* C2: slitfunc_curved fails with a validation error if an entry of tilt,
\* shear or the trace is non-finite or if a per-column tilt or shear has not
\* one entry per column; a finite scalar tilt or shear is accepted and is
\* handed to the kernel as one value per column.
C2_CurvatureChecked ==
    \A s \in Slots : (InCall(s) /\ Fn(s) = "slitfunc_curved") =>
        LET a == loc[s].args
        IN  /\ (\/ ~AllFinite(a.tilt.v) \/ ~AllFinite(a.shear.v) \/ ~AllFinite(a.ycen)
                \/ ~ShapeOK(a.tilt) \/ ~ShapeOK(a.shear))
                => Pc(s) = "error"
            /\ (Preconditions(a) /\ (a.tilt.scalar \/ a.shear.scalar))
                => Pc(s) # "error"
            /\ (Pc(s) \in {"ready", "called", "done"})
                => /\ a.tilt.scalar =>
                        loc[s].kin.tilt = [c \in 1..NCols |-> a.tilt.v[1]]
                   /\ a.shear.scalar =>
                        loc[s].kin.shear = [c \in 1..NCols |-> a.shear.v[1]]

\* a slitfunc_curved call whose only fault is a non-finite entry of a
\* per-column shear has raised
C2_Witness ==
    \E s \in Slots :
        /\ Pc(s) = "error" /\ Fn(s) = "slitfunc_curved"
        /\ ~loc[s].args.shear.scalar /\ ShapeOK(loc[s].args.shear)
        /\ ~AllFinite(loc[s].args.shear.v)
        /\ Preconditions([loc[s].args EXCEPT !.shear = Scalar(0)])

\* the pixel was handed to the kernel as good and the kernel kept it
Accepted(s, p) == KAccepted(loc[s].kin, p)
MaskedOnInput(s, p) == loc[s].snapM[ToFrame(loc[s].args.view, p)]

\* C3: the accept-mask both entry points return is true = good: true exactly
\* at the pixels that were accepted (used in the solve), false exactly at the
\* pixels masked on input or rejected.
C3_AcceptMaskTrueIsGood ==
    \A s \in Slots : Pc(s) = "done" =>
        \A p \in W :
            /\ loc[s].res.mask[p] <=> Accepted(s, p)
            /\ MaskedOnInput(s, p) => ~loc[s].res.mask[p]

\* C4: a call modifies no array of the caller: image values and mask are,
\* during and after the call, what they were when the call was made.
C4_CallerArraysUntouched ==
    \A s \in Slots : InCall(s) => (fdata = loc[s].snapD /\ fmask = loc[s].snapM)

\* C5: a call whose oversampling is not an integer (1.5) fails with a
\* validation error in both entry points; it is not truncated and accepted.
C5_FractionalOversamplingRejected ==
    \A s \in Slots : (InCall(s) /\ loc[s].args.os2 % 2 # 0) => Pc(s) = "error"

SameCallAgain(s, fn) ==
    /\ Pc(s) = "done"
    /\ Fn(s) = fn
    /\ prev.set
    /\ prev.args = loc[s].args

\* C6: slitfunc called twice in a row with the same arguments returns the
\* same spectrum, slit function, model, uncertainty and accept-mask: the
\* first call leaves nothing behind that changes the second.
C6_SlitfuncIdempotent ==
    SameCallAgain(1, "slitfunc") => loc[1].res = prev.res

\* the second of two equal slitfunc calls has finished, on a frame with a
\* masked or non-finite pixel in the swath
C6_Witness ==
    /\ SameCallAgain(1, "slitfunc")
    /\ \E p \in W : \/ MaskedOnInput(1, p)
                    \/ loc[1].snapD[ToFrame(loc[1].args.view, p)] = NaN

\* C7: slitfunc_curved called twice in a row with the same caller-held
\* arrays and arguments hands the same values to the kernel and returns the
\* same outputs both times.
C7_CurvedStateless ==
    SameCallAgain(1, "slitfunc_curved")
        => (loc[1].kin = prev.kin /\ loc[1].res = prev.res)

\* C8: two calls running concurrently on two swaths of one frame do not
\* interfere: each returns what it returns when run alone on the frame it
\* was handed.
C8_ConcurrentCallsIndependent ==
    \A s \in Slots : Pc(s) = "done" =>
        loc[s].res = RunAlone(fkind, loc[s].snapD, loc[s].snapM, loc[s].args)

\* C9: when a call fails with a validation error the kernel has not been
\* invoked and the caller's image and mask are as they were handed over.
C9_ErrorBeforeAnyEffect ==
    \A s \in Slots : Pc(s) = "error" =>
        /\ ~loc[s].kcalled
        /\ fdata = loc[s].snapD
        /\ fmask = loc[s].snapM

\* a slitfunc_curved call has raised on a swath that holds a non-finite
\* pixel, which the cleaning of the image would have overwritten
C9_Witness ==
    \E s \in Slots :
        /\ Pc(s) = "error" /\ Fn(s) = "slitfunc_curved"
        /\ \E p \in W : fdata[ToFrame(loc[s].args.view, p)] = NaN

\* C10: for every valid call the slit function has oversampling*(nrows+1)+1
\* entries, spectrum and uncertainty have ncols entries, model and
\* accept-mask have the shape of the image, and slitfunc_curved returns a
\* diagnostics vector of 4 entries.
C10_OutputShapes ==
    \A s \in Slots : (Pc(s) = "done" /\ Preconditions(loc[s].args)) =>
        LET r == loc[s].res
        IN  /\ Len(r.sl) = (loc[s].args.os2 \div 2) * (NRows + 1) + 1
            /\ Len(r.sp) = NCols
            /\ Len(r.unc) = NCols
            /\ DOMAIN r.model = W
            /\ DOMAIN r.mask = W
            /\ Fn(s) = "slitfunc_curved" => Len(r.info) = 4

\* a slitfunc_curved call with oversampling 2 has returned
C10_Witness ==
    \E s \in Slots :
        /\ Pc(s) = "done" /\ Fn(s) = "slitfunc_curved"
        /\ loc[s].args.os2 = 4
        /\ Len(loc[s].res.sl) = 2 * (NRows + 1) + 1

\* the curvature padding of the call, from the nx handed to the kernel
PadOf(s) == (loc[s].kin.nx - 1) \div 2
CurvedAt(s, pcs) == Pc(s) \in pcs /\ Fn(s) = "slitfunc_curved"

\* C11: for every valid slitfunc_curved call with dx > 0 the first dx and the
\* last dx entries of the returned spectrum are zero, whatever the kernel
\* wrote there; with dx = 0 the kernel's spectrum is returned unchanged.
C11_EdgesTrimmed ==
    \A s \in Slots : CurvedAt(s, {"done"}) =>
        LET dx == PadOf(s)
            sp == loc[s].res.sp
        IN  /\ dx > 0 =>
                \A c \in DOMAIN sp : (c <= dx \/ c > Len(sp) - dx) => sp[c] = 0
            /\ dx = 0 => sp = loc[s].out.sp

\* a slitfunc_curved call with dx > 0 has returned, and the kernel had
\* written a non-zero value into the last entry of the spectrum
C11_Witness ==
    \E s \in Slots :
        /\ CurvedAt(s, {"done"})
        /\ PadOf(s) > 0
        /\ loc[s].out.sp[NCols] # 0
        /\ loc[s].res.sp[NCols] = 0

\* the row displacements of the image rows from the integer trace offset of
\* column c: row r (counted from 0) is r - ycen_offset[c] away from it
Displacements(s, c) == {r - loc[s].kin.ycen_offset[c] : r \in 0..(NRows - 1)}
\* twice the horizontal displacement tilt*y + shear*y^2 (tilt, shear in halves)
Shift2(s, c, y) == loc[s].kin.tilt[c] * y + loc[s].kin.shear[c] * y * y

\* C12: dx is a non-negative integer that bounds the horizontal displacement
\* |tilt[c]*y + shear[c]*y^2| of every image row in every column, y being
\* the displacement of the row from the integer trace offset of that column,
\* also when the offsets differ between columns; and dx is the ceiling of the
\* largest of these displacements.
C12_PaddingCoversCurvature ==
    \A s \in Slots : CurvedAt(s, {"ready", "called", "done"}) =>
        /\ PadOf(s) >= 0
        /\ \A c \in 1..NCols : \A y \in Displacements(s, c) :
                Abs(Shift2(s, c, y)) <= 2 * PadOf(s)

\* the swath as it was handed to the call
InData(s, p) == loc[s].snapD[ToFrame(loc[s].args.view, p)]
NonFiniteOnInput(s, p) == InData(s, p) = NaN
\* the pixels of the swath that are valid on input: not masked and finite
ValidOnInput(s, p) == ~MaskedOnInput(s, p) /\ ~NonFiniteOnInput(s, p)
AllMaskedOnInput(s) == \A p \in W : MaskedOnInput(s, p)
SlitfuncAt(s, pcs) == Pc(s) \in pcs /\ Fn(s) = "slitfunc"
AllZero(f) == \A x \in DOMAIN f : f[x] = 0

RECURSIVE ValidOfRow(_, _, _)
ValidOfRow(s, r, c) ==
    IF c > NCols THEN <<>>
    ELSE (IF ValidOnInput(s, <<r, c>>) THEN <<InData(s, <<r, c>>)>> ELSE <<>>)
         \o ValidOfRow(s, r, c + 1)
\* twice the median of the valid pixels of row r (0 for a row without any)
ValidMedian2(s, r) ==
    IF ValidOfRow(s, r, 1) = <<>> THEN 0 ELSE Median2(ValidOfRow(s, r, 1))
\* the sum of the valid pixels of column c
ValidColSum(s, c) ==
    SumSeq([r \in 1..NRows |-> IF ValidOnInput(s, <<r, c>>) THEN InData(s, <<r, c>>) ELSE 0])

\* C16: in slitfunc_curved every pixel that is non-finite on input is
\* rejected whatever the 6-sigma clip does: the kernel gets it flagged 0 and
\* with the value 0, and the initial spectrum and the initial slit profile
\* are those of the remaining pixels (the column sums and the normalised
\* row medians of the pixels that are valid on input).
C16_NonFiniteRejectedCurved ==
    \A s \in Slots :
        (CurvedAt(s, {"ready", "called", "done"}) /\ \E p \in W : NonFiniteOnInput(s, p)) =>
            /\ \A p \in W : NonFiniteOnInput(s, p) =>
                    loc[s].kin.mask[p] = 0 /\ loc[s].kin.img[p] = 0
            /\ \A c \in 1..NCols : loc[s].ini.sp[c] = ValidColSum(s, c)
            /\ \A r \in 1..NRows :
                    loc[s].ini.sl2[r] * SumSeq([q \in 1..NRows |-> ValidMedian2(s, q)])
                        = ValidMedian2(s, r) * SumSeq(loc[s].ini.sl2)

\* C17: in slitfunc every pixel that is non-finite on input is rejected,
\* masked by the caller or not: the kernel gets it flagged not good, and
\* the initial spectrum is the column sum of the pixels valid on input.
C17_NonFiniteRejectedSlitfunc ==
    \A s \in Slots :
        (SlitfuncAt(s, {"ready", "called", "done"}) /\ \E p \in W : NonFiniteOnInput(s, p)) =>
            /\ \A p \in W : NonFiniteOnInput(s, p) => loc[s].kin.mask[p] = 0
            /\ \A c \in 1..NCols : loc[s].kin.sp[c] = ValidColSum(s, c)

\* the initializer has finished on an image without (with) an injected outlier
RobReady == rob.pc = "ready"
Noiseless == RobReady /\ rob.gen.out = NoPixel
OneOutlier == RobReady /\ rob.gen.out # NoPixel
PixelsOf(g) == g.shape[1] * g.shape[2]

\* C13: for a noiseless image slit(row) * spectrum[col] without masked
\* pixels the robust initializer of slitfunc_curved rejects no pixel, also
\* when the spectrum has a feature narrower than the median window: every
\* pixel is handed to the kernel as good, so the accept-mask can be all true.
C13_NoiselessAllAccepted ==
    Noiseless => \A p \in DOMAIN rob.kmask : rob.kmask[p] = 1

\* C14: a single extreme outlier injected into an otherwise noiseless
\* separable image of any size is flagged rejected before the kernel solve
\* and zeroed in the working image, and every other pixel stays accepted.
C14_OutlierRejected ==
    OneOutlier =>
        /\ rob.kmask[rob.gen.out] = 0
        /\ rob.img[rob.gen.out] = 0
        /\ \A p \in DOMAIN rob.kmask : p # rob.gen.out => rob.kmask[p] = 1

\* C14, amended: in slitfunc_curved a single extreme outlier injected into a
\* noiseless separable image with a flat spectrum and at least 3 columns
\* leaves every other pixel accepted; the outlier is flagged rejected before
\* the kernel solve and zeroed in the working image exactly when the image
\* has at least 35 pixels, and in a smaller image the initializer flags no
\* pixel and hands the outlier to the kernel as it is.
C14_OutlierRejectedAmended ==
    OneOutlier =>
        /\ \A p \in DOMAIN rob.kmask : p # rob.gen.out => rob.kmask[p] = 1
        /\ PixelsOf(rob.gen) >= 35 =>
                rob.kmask[rob.gen.out] = 0 /\ rob.img[rob.gen.out] = 0
        /\ PixelsOf(rob.gen) < 35 =>
                /\ rob.kmask[rob.gen.out] = 1
                /\ rob.img[rob.gen.out] = RobImage(rob.gen)[rob.gen.out]

\* the initializer has flagged and zeroed the outlier of an image of 35
\* pixels
C14_Witness ==
    /\ OneOutlier
    /\ PixelsOf(rob.gen) = 35
    /\ rob.kmask[rob.gen.out] = 0
    /\ rob.img[rob.gen.out] = 0

RunStepsOver == red.pc \in {"raised", "returned"}

\* C18: run_steps("all") is equivalent to run_steps with the tuple of all
\* step names: it runs every pipeline step once, ends as the call with the
\* tuple ends, and does not fail because the argument is a string.
C18_AllIsEveryStep ==
    (RunStepsOver /\ red.steps = AllString) =>
        /\ red.exc = "none"
        /\ Range(red.ran) = StepNames /\ Len(red.ran) = Cardinality(StepNames)
        /\ [exc |-> red.exc, ran |-> red.ran] = RunStepsOutcome(Tuple(AllSteps))

SpliceOverNow == spl.pc \in {"raised", "returned"}
\* the wavelengths of an order, inside its column range
WavesOf(a, o) ==
    {a.wave[o][c] : c \in {c \in DOMAIN a.wave[o] :
                            c >= ColumnRange(a)[o][1] /\ c < ColumnRange(a)[o][2]}}
\* the wavelength ranges [min, max] of two orders have a wavelength in common
RangesOverlap(o0, o1) ==
    /\ MaxOf(WavesOf(spl.a, o0)) >= MinOf(WavesOf(spl.a, o1))
    /\ MaxOf(WavesOf(spl.a, o1)) >= MinOf(WavesOf(spl.a, o0))
\* the pairs of neighbouring orders the loop has taken up
Visited == {spl.pairs[k] : k \in {k \in DOMAIN spl.pairs : k <= spl.k}}
Neighbours == {<<o, o + 1>> : o \in 0..(NOrdOf(spl.a) - 2)}

\* C19: splice_orders raises NotImplementedError exactly when a pair of
\* neighbouring orders it visits has no overlapping wavelength range, and
\* then before it has modified either order of that pair; when every pair of
\* neighbouring orders overlaps it returns without raising.
C19_RaisesIffNoOverlap ==
    SpliceOverNow =>
        /\ spl.exc = "NotImplementedError" <=>
                \E pr \in Visited : ~RangesOverlap(pr[1], pr[2])
        /\ spl.exc = "NotImplementedError" => spl.written = spl.pre
        /\ (\A pr \in Neighbours : RangesOverlap(pr[1], pr[2])) => spl.pc = "returned"

ProperSubRange(a) ==
    /\ a.order_range # Nil
    /\ a.order_range[2] - a.order_range[1] + 1 < NOrdOf(a)
InOrderRange(a, o) == o >= OrderRange(a)[1] /\ o <= OrderRange(a)[2]

\* C20: with an order_range (first, last) that is a proper sub-range,
\* splice_orders completes without an indexing or shape error, returns
\* arrays of last - first + 1 orders and reads and changes no order outside
\* the range; with column_range given, the pixels outside the column range
\* of an order are masked in the result.
C20_SubRangeSpliced ==
    SpliceOverNow =>
        /\ ProperSubRange(spl.a) =>
                /\ spl.exc \in {"none", "NotImplementedError"}
                /\ spl.pc = "returned" =>
                        spl.nslice = spl.a.order_range[2] - spl.a.order_range[1] + 1
                /\ \A o \in spl.read \cup spl.written :
                        InOrderRange(spl.a, o + spl.a.order_range[1])
        /\ (spl.pc = "returned" /\ spl.a.column_range # Nil) =>
                \A o \in DOMAIN spl.mask : \A c \in DOMAIN spl.mask[o] :
                    (InOrderRange(spl.a, o)
                     /\ (c < spl.a.column_range[o][1] \/ c >= spl.a.column_range[o][2]))
                        => spl.mask[o][c]

\* C21: in the robust initializer of slitfunc_curved every pixel whose
\* absolute residual |trial model - image| exceeds 6 times the standard
\* deviation of the residuals over the whole patch is flagged rejected (0 in
\* the kernel mask) and is 0 in the working image, no other finite unmasked
\* pixel is rejected or changed, and the spectrum handed to the kernel is
\* the column sums of the cleaned working image.
C21_SigmaClipApplied ==
    RobReady =>
        LET orig == RobImage(rob.gen)
            bad == Clipped(orig)
        IN  /\ \A p \in DOMAIN orig :
                    IF p \in bad
                    THEN rob.kmask[p] = 0 /\ rob.img[p] = 0
                    ELSE rob.kmask[p] = 1 /\ rob.img[p] = orig[p]
            /\ \A c \in DOMAIN rob.sp :
                    rob.sp[c] = SumSeq([r \in 1..rob.gen.shape[1] |-> rob.img[<<r, c>>]])

\* a pixel has been clipped, and the spectrum handed to the kernel differs
\* from the median-filtered first guess
C21_Witness ==
    /\ RobReady
    /\ \E p \in DOMAIN rob.kmask : rob.kmask[p] = 0 /\ RobImage(rob.gen)[p] # 0
    /\ \E c \in DOMAIN rob.sp : rob.sp[c] # MedianFilter(ColSums(RobImage(rob.gen)))[c]

\* the call has prepared what it hands to the kernel
Prepared(s) == Pc(s) \in {"ready", "called", "done"}
\* the image of the call as it was on input, with the pixels that were
\* masked or non-finite on input set to 0
CleanedInput(s) == [p \in W |-> IF ValidOnInput(s, p) THEN InData(s, p) ELSE 0]

ZeroColumn(s, c) == \A r \in 1..NRows : InData(s, <<r, c>>) = 0
MaskedColumn(s, c) == \A r \in 1..NRows : MaskedOnInput(s, <<r, c>>)

C24_UncertaintyIsSqrtOfClipped ==
    \A s \in Slots : Prepared(s) =>
        \A p \in W :
            loc[s].kin.img[p] # NaN =>
                loc[s].kin.pix_unc2[p] = (IF loc[s].kin.img[p] >= 0 THEN loc[s].kin.img[p] ELSE 0)

\* C25: the trace is split into an integer offset and a remainder with
\* 0 <= remainder < 1 (0 or 1 in halves), for positive and negative traces;
\* slitfunc_curved passes both and y_lower_lim, the smallest offset;
\* slitfunc passes the remainder only.
C25_TraceSplit ==
    \A s \in Slots : Prepared(s) =>
        LET a == loc[s].args
            k == loc[s].kin
        IN  /\ \A c \in 1..NCols :
                    a.ycen[c] # NaN =>
                        /\ k.ycen[c] \in {0, 1}
                        /\ Fn(s) = "slitfunc_curved" =>
                                2 * k.ycen_offset[c] + k.ycen[c] = a.ycen[c]
            /\ Fn(s) = "slitfunc_curved" =>
                    k.y_lower_lim = MinOf({k.ycen_offset[c] : c \in 1..NCols})
            /\ Fn(s) = "slitfunc" => "ycen_offset" \notin DOMAIN k

\* C26: for every valid call of slitfunc_curved the work buffers handed to
\* the kernel fit the declared geometry: the band buffer of the spectrum
\* system has at least nx = 2 * dx + 1 entries for each column, that of the
\* slit system 4 * osample + 1 entries for each of the ny nodes.
C26_WorkBuffersFit ==
    \A s \in Slots : (Prepared(s) /\ Fn(s) = "slitfunc_curved") =>
        LET k == loc[s].kin
        IN  /\ k.p_aij[1] = k.ncols /\ k.p_aij[2] >= k.nx
            /\ k.l_aij = <<k.osample * (k.nrows + 1) + 1, 4 * k.osample + 1>>

\* C26, amended: the band buffer of the spectrum system has five entries for
\* each column whatever dx is, so it holds nx entries exactly when dx <= 2;
\* the right-hand sides have ncols and ny entries; the band buffer of the
\* slit system has 4 * osample + 1 entries for each of the ny nodes.
C26_WorkBuffersFixedBand ==
    \A s \in Slots : (Prepared(s) /\ Fn(s) = "slitfunc_curved") =>
        LET k == loc[s].kin
        IN  /\ k.p_aij = <<k.ncols, 5>> /\ k.p_bj = <<k.ncols>>
            /\ k.p_aij[2] >= k.nx <=> Dx(loc[s].args) <= 2
            /\ k.l_aij = <<k.osample * (k.nrows + 1) + 1, 4 * k.osample + 1>>
            /\ k.l_bj = <<k.osample * (k.nrows + 1) + 1>>

\* the kernel call is prepared for a curvature that couples more than five
\* columns
C26_Witness ==
    \E s \in Slots :
        /\ CurvedAt(s, {"ready"})
        /\ loc[s].kin.nx > 5 /\ loc[s].kin.p_aij[2] < loc[s].kin.nx

\* the steps argument is a tuple of names of pipeline steps, one at least
RequestedSteps ==
    /\ red.steps # Nil /\ ~red.steps.str
    /\ red.steps.items # <<>>
    /\ Range(red.steps.items) \subseteq StepNames

\* C27: run_steps runs exactly the requested steps, in the order of
\* step_order whatever the order of the argument is, and returns after the
\* requested step that is last in step_order.
C27_RunsRequestedInOrder ==
    (RunStepsOver /\ RequestedSteps) =>
        /\ red.pc = "returned" /\ red.exc = "none"
        /\ Range(red.ran) = Range(red.steps.items)
        /\ Len(red.ran) = Len(red.steps.items)
        /\ \A i, j \in DOMAIN red.ran :
                i < j => step_order[red.ran[i]] < step_order[red.ran[j]]
        /\ red.ran[Len(red.ran)] = red.last_step

\* C28: run_module(step) comes to its end for every step of the module
\* table (mask, bias, flat) and leaves the result of the step in self.data:
\* no call of run_module for such a step ends run_steps with an exception.
C28_RunModuleCompletes ==
    (red.pc = "raised" /\ RequestedSteps /\ red.i \in DOMAIN red.steps.items) =>
        red.steps.items[red.i] \notin Modules

\* the loop of splice_orders has been entered
SpliceLooping == spl.pc = "loop" \/ spl.pc = "returned" \/ spl.exc = "NotImplementedError"

\* C29: splice_orders takes up the pairs of neighbouring orders from the
\* reference order iord0 outwards: (iord0, iord0 - 1), ..., (1, 0), then
\* (iord0, iord0 + 1), ..., (nord - 2, nord - 1).  Each pair of neighbours
\* is spliced once, nord - 1 pairs in all; the first order of a pair is the
\* one nearer to iord0 and, unless it is iord0 at the first pair, it has
\* been spliced when the pair is taken up.
C29_OutwardFromReference ==
    SpliceLooping =>
        LET n == NOrdOf(spl.a)
            i0 == spl.iord0
            P == spl.pairs
            done == {k \in DOMAIN P : k < spl.k}
        IN  /\ Len(P) = n - 1
            /\ \A k \in DOMAIN P :
                    P[k] = IF k <= i0 THEN <<i0 - k + 1, i0 - k>> ELSE <<k - 1, k>>
            /\ \A k \in DOMAIN P :
                    /\ Abs(P[k][1] - i0) < Abs(P[k][2] - i0)
                    /\ Abs(P[k][1] - P[k][2]) = 1
                    /\ k > 1 => \E j \in 1..(k - 1) : P[k][1] \in {P[j][1], P[j][2]}
            /\ \A j, k \in DOMAIN P : j # k => {P[j][1], P[j][2]} # {P[k][1], P[k][2]}
            /\ spl.written = UNION {{P[k][1], P[k][2]} : k \in done}
            /\ spl.pc = "returned" =>
                    /\ spl.k = n
                    /\ {{pr[1], pr[2]} : pr \in Neighbours} = {{P[k][1], P[k][2]} : k \in done}

\* the call has returned after splicing downwards and upwards from a
\* reference order in the middle
C29_Witness ==
    /\ spl.pc = "returned"
    /\ spl.iord0 > 0 /\ spl.iord0 < NOrdOf(spl.a) - 1
    /\ spl.written = DOMAIN spl.a.wave

\* C30: for every boolean mask m, Mask.load of the file Mask.save(m) has
\* written returns m, through any number of cycles of save and load: no
\* save fails and what is loaded is the mask saved last.
C30_MaskRoundTrip ==
    msk.m # Nil =>
        /\ msk.exc = "none"
        /\ msk.out # Nil => msk.out = msk.m

=============================================================================
